---------------------------- MODULE Spec2Model ----------------------------
(***************************************************************************)
(* The SBT registry of i-am-human (contracts/registry): the token ledger,  *)
(* its balance index, the three supply counters and the recovery guard,    *)
(* with the queries and transactions of `impl SBTRegistry for Contract`.   *)
(*                                                                         *)
(* A transaction is one atomic step: a panic (require!, unwrap on None,    *)
(* arithmetic overflow) aborts the call and the ledger is left as it was.  *)
(* Option<T> is modelled as a sequence: None is <<>>, Some(v) is <<v>>.    *)
(***************************************************************************)
EXTENDS Integers, Sequences, FiniteSets, TLC

(***************************************************************************)
(* Bounds of the model.                                                    *)
(***************************************************************************)
\* class ids used by the single mints are 0..MaxClass (0 is the invalid class)
MaxClass == 2
\* block_timestamp_ms ranges over 0..MaxTime
MaxTime == 1
\* the single mints stop once this many token ids were assigned in total
MaxTokens == 2
\* the largest number of tokens one bulk mint creates
MaxBulk == 25

\* MAX_LIMIT: the default limit of the paginated queries
MAX_LIMIT == 1000
\* the batch size sbt_recover passes to _sbt_recover
RECOVER_LIMIT == 20

(***************************************************************************)
(* Option<T>                                                               *)
(***************************************************************************)
None == <<>>
Some(v) == <<v>>
unwrap_or(o, d) == IF o = None THEN d ELSE o[1]

Min(a, b) == IF a < b THEN a ELSE b

(***************************************************************************)
(* Accounts.  AccountId is a string, ordered as Rust orders strings.       *)
(***************************************************************************)
Accounts == {"alice", "bob"}
\* the callers: two registered issuers and one account that is no issuer
Callers == {"issuer1", "issuer2", "mallory"}
AccountOrd(a) ==
    CASE a = "alice" -> 1 [] a = "bob" -> 2 [] a = "carol" -> 3
      [] a = "issuer1" -> 4 [] a = "issuer2" -> 5 [] a = "mallory" -> 6

VARIABLES
    sbt_issuers,       \* AccountId -> IssuerId (registered issuers only)
    supply_by_owner,   \* <<AccountId, IssuerId>> -> u64
    supply_by_class,   \* <<IssuerId, ClassId>> -> u64
    supply_by_issuer,  \* IssuerId -> u64
    balances,          \* BalanceKey -> TokenId (ordered map)
    issuer_tokens,     \* <<IssuerId, TokenId>> -> TokenData
    next_token_ids,    \* IssuerId -> the last token id assigned
    ongoing_soul_tx,   \* AccountId -> IssuerTokenId (recovery in progress)
    now,               \* env::block_timestamp_ms()
    last,              \* the last call: its name, success, result and events
    phase,             \* position of the recovery scenario
    snapshot,          \* the Token Store when the recovery scenario started
    iah_sbts,          \* <<AccountId, classes>>: the IAH issuer and the classes a human holds
    used_tokens,       \* human_checker: AccountId -> the proof recorded for the account
    near_balance       \* AccountId -> the NEAR the account owns

ledger == <<sbt_issuers, supply_by_owner, supply_by_class, supply_by_issuer,
            balances, issuer_tokens, next_token_ids, ongoing_soul_tx, iah_sbts>>
vars == <<sbt_issuers, supply_by_owner, supply_by_class, supply_by_issuer,
          balances, issuer_tokens, next_token_ids, ongoing_soul_tx, now, last,
          phase, snapshot, iah_sbts, used_tokens, near_balance>>

(***************************************************************************)
(* Maps.  A map is a function whose DOMAIN is the set of keys present.     *)
(***************************************************************************)
EmptyMap == [k \in {} |-> 0]
contains_key(m, k) == k \in DOMAIN m
get(m, k) == IF k \in DOMAIN m THEN Some(m[k]) ELSE None
insert(m, k, v) == [x \in DOMAIN m \cup {k} |-> IF x = k THEN v ELSE m[x]]
remove(m, k) == [x \in DOMAIN m \ {k} |-> m[x]]

(***************************************************************************)
(* The Issuer Directory.                                                   *)
(***************************************************************************)
IssuerIds == {1, 2}
\* reverse index issuer_id_map: IssuerId -> AccountId
issuer_by_id(id) == CHOOSE a \in DOMAIN sbt_issuers : sbt_issuers[a] = id
\* assert_issuer panics when the account is no registered issuer
is_issuer(addr) == contains_key(sbt_issuers, addr)
assert_issuer(addr) == sbt_issuers[addr]

(***************************************************************************)
(* Tokens and balance keys.                                                *)
(***************************************************************************)
TokenMetadata(class, expires_at) == [class |-> class, expires_at |-> expires_at]
TokenData(owner, metadata) == [owner |-> owner, metadata |-> metadata]
IssuerTokenId(issuer_id, token) == <<issuer_id, token>>
BalanceKey(issuer_id, owner, class_id) ==
    [issuer_id |-> issuer_id, owner |-> owner, class_id |-> class_id]
balance_key(owner, issuer_id, class_id) == BalanceKey(issuer_id, owner, class_id)
\* td.to_token(token)
to_token(td, token) == [token |-> token, owner |-> td.owner, metadata |-> td.metadata]
OwnedToken(token, metadata) == [token |-> token, metadata |-> metadata]

\* the order of the balances TreeMap: lexicographic on (issuer_id, owner, class_id)
BalanceKeyLess(a, b) ==
    \/ a.issuer_id < b.issuer_id
    \/ /\ a.issuer_id = b.issuer_id
       /\ \/ AccountOrd(a.owner) < AccountOrd(b.owner)
          \/ /\ a.owner = b.owner
             /\ a.class_id < b.class_id

\* TreeMap::higher: the least key of the map greater than `key`, if any;
\* iter_from(key) walks the map with it, `key` itself excluded
higher(key) ==
    LET above == {k \in DOMAIN balances : BalanceKeyLess(key, k)}
    IN  IF above = {} THEN None
        ELSE Some(CHOOSE k \in above : \A x \in above : x = k \/ BalanceKeyLess(k, x))

\* the result of a call that may panic
Panic == [ok |-> FALSE, val |-> <<>>]
Ok(v) == [ok |-> TRUE, val |-> v]

\* t.metadata.expires_at().unwrap_or(now) < now
is_expired(metadata) == unwrap_or(metadata.expires_at, now) < now

(***************************************************************************)
(* Queries.                                                                *)
(***************************************************************************)
sbt_supply(issuer) ==
    IF ~is_issuer(issuer) THEN 0
    ELSE unwrap_or(get(supply_by_issuer, sbt_issuers[issuer]), 0)

sbt_supply_by_class(issuer, class) ==
    IF ~is_issuer(issuer) THEN 0
    ELSE unwrap_or(get(supply_by_class, <<sbt_issuers[issuer], class>>), 0)

\* sbt_supply_by_owner without the check of ongoing_soul_tx (faulty variant)
sbt_supply_by_owner_NoGuard(account, issuer, class) ==
    IF ~is_issuer(issuer) THEN 0
    ELSE IF class # None
         THEN IF contains_key(balances, balance_key(account, sbt_issuers[issuer], class[1]))
              THEN 1 ELSE 0
         ELSE unwrap_or(get(supply_by_owner, <<account, sbt_issuers[issuer]>>), 0)

\* class is an Option<ClassId>
sbt_supply_by_owner(account, issuer, class) ==
    IF contains_key(ongoing_soul_tx, account) THEN 0
    ELSE IF ~is_issuer(issuer) THEN 0
    ELSE IF class # None
         THEN IF contains_key(balances, balance_key(account, sbt_issuers[issuer], class[1]))
              THEN 1 ELSE 0
         ELSE unwrap_or(get(supply_by_owner, <<account, sbt_issuers[issuer]>>), 0)

\* the loop `for token in from_token..max_id` of sbt_tokens
RECURSIVE sbt_tokens_loop(_, _, _, _)
sbt_tokens_loop(issuer_id, token, max_id, non_expired) ==
    IF token >= max_id THEN <<>>
    ELSE LET t == get(issuer_tokens, IssuerTokenId(issuer_id, token))
             rest == sbt_tokens_loop(issuer_id, token + 1, max_id, non_expired)
         IN  IF t = None THEN rest
             ELSE IF non_expired /\ is_expired(t[1].metadata) THEN rest
             ELSE <<to_token(t[1], token)>> \o rest

\* sbt_tokens with a scan that stops one id early (faulty variant)
sbt_tokens_ShortWindow(issuer, from_token, limit, with_expired) ==
    IF ~is_issuer(issuer) THEN Ok(<<>>)
    ELSE LET issuer_id == sbt_issuers[issuer]
             from == unwrap_or(from_token, 1)
             lim == unwrap_or(limit, MAX_LIMIT)
             max_id == unwrap_or(get(next_token_ids, issuer_id), 0)
         IN  IF ~(from > 0) THEN Panic
             ELSE IF ~(lim > 0) THEN Panic
             ELSE IF max_id < from THEN Ok(<<>>)
             ELSE Ok(sbt_tokens_loop(issuer_id, from, Min(max_id, from + lim),
                                     ~unwrap_or(with_expired, FALSE)))

\* sbt_tokens without the require on from_token (faulty variant)
sbt_tokens_NoFromCheck(issuer, from_token, limit, with_expired) ==
    IF ~is_issuer(issuer) THEN Ok(<<>>)
    ELSE LET issuer_id == sbt_issuers[issuer]
             from == unwrap_or(from_token, 1)
             lim == unwrap_or(limit, MAX_LIMIT)
             max_id == unwrap_or(get(next_token_ids, issuer_id), 0)
         IN  IF ~(lim > 0) THEN Panic
             ELSE IF max_id < from THEN Ok(<<>>)
             ELSE Ok(sbt_tokens_loop(issuer_id, from, Min(max_id + 1, from + lim),
                                     ~unwrap_or(with_expired, FALSE)))

\* from_token, limit and with_expired are Options
sbt_tokens(issuer, from_token, limit, with_expired) ==
    IF ~is_issuer(issuer) THEN Ok(<<>>)
    ELSE LET issuer_id == sbt_issuers[issuer]
             from == unwrap_or(from_token, 1)
             lim == unwrap_or(limit, MAX_LIMIT)
             max_id == unwrap_or(get(next_token_ids, issuer_id), 0)
         IN  IF ~(from > 0) THEN Panic
             ELSE IF ~(lim > 0) THEN Panic
             ELSE IF max_id < from THEN Ok(<<>>)
             ELSE Ok(sbt_tokens_loop(issuer_id, from, Min(max_id + 1, from + lim),
                                     ~unwrap_or(with_expired, FALSE)))

\* the group pushed after the loop of sbt_tokens_by_owner
tokens_by_owner_finish(resp, tokens, prev_issuer) ==
    IF prev_issuer # 0 /\ tokens # <<>>
    THEN Ok(Append(resp, <<issuer_by_id(prev_issuer), tokens>>))
    ELSE Ok(resp)

\* the loop `for (key, token_id) in self.balances.iter_from(first_key)`:
\* `cursor` is the key the iterator stands on, `limit` the tokens still to emit
RECURSIVE tokens_by_owner_loop(_, _, _, _, _, _, _, _)
tokens_by_owner_loop(account, issuer_id, with_expired, cursor, resp, tokens, prev_issuer, limit) ==
    LET nxt == higher(cursor)
    IN  IF nxt = None THEN tokens_by_owner_finish(resp, tokens, prev_issuer)
        ELSE
        LET key == nxt[1]
            token_id == balances[key]
            new_issuer == prev_issuer # key.issuer_id
            flush == new_issuer /\ tokens # <<>>
            resp1 == IF flush THEN Append(resp, <<issuer_by_id(prev_issuer), tokens>>)
                     ELSE resp
            tokens1 == IF flush THEN <<>> ELSE tokens
            t == get(issuer_tokens, IssuerTokenId(key.issuer_id, token_id))
        IN  IF key.owner # account
            THEN tokens_by_owner_finish(resp, tokens, prev_issuer)
            ELSE IF new_issuer /\ issuer_id # 0
            THEN tokens_by_owner_finish(resp, tokens, prev_issuer)
            ELSE IF t = None THEN Panic      \* get_token: the token is not stored
            ELSE IF ~with_expired /\ is_expired(t[1].metadata)
            THEN tokens_by_owner_loop(account, issuer_id, with_expired, key, resp1,
                                      tokens1, key.issuer_id, limit)
            ELSE LET tokens2 == Append(tokens1, OwnedToken(token_id, t[1].metadata))
                 IN  IF limit - 1 = 0
                     THEN tokens_by_owner_finish(resp1, tokens2, key.issuer_id)
                     ELSE tokens_by_owner_loop(account, issuer_id, with_expired, key,
                                               resp1, tokens2, key.issuer_id, limit - 1)

\* let mut limit = limit.unwrap_or(MAX_LIMIT): the number of tokens the scan may emit
scan_limit(limit) == unwrap_or(limit, MAX_LIMIT)

\* the scan starting after from_class itself (faulty variant)
tokens_by_owner_scan_SkipsCursor(account, issuer, from_class, limit, with_expired) ==
    IF issuer # None /\ ~is_issuer(issuer[1]) THEN Panic
    ELSE LET issuer_id == IF issuer = None THEN 0 ELSE assert_issuer(issuer[1])
             from == unwrap_or(from_class, 0)
             first_key == balance_key(account, issuer_id, from)
             lim == scan_limit(limit)
         IN  IF ~(lim > 0) THEN Panic
             ELSE tokens_by_owner_loop(account, issuer_id,
                                       unwrap_or(with_expired, FALSE), first_key,
                                       <<>>, <<>>, issuer_id, lim)

\* sbt_tokens_by_owner after its check of the Continuation Guard
tokens_by_owner_scan(account, issuer, from_class, limit, with_expired) ==
    IF issuer # None /\ ~is_issuer(issuer[1]) THEN Panic
    ELSE LET issuer_id == IF issuer = None THEN 0 ELSE assert_issuer(issuer[1])
             from == unwrap_or(from_class, 0)
             \* from_class.saturating_sub(1)
             first_key == balance_key(account, issuer_id,
                                      IF from = 0 THEN 0 ELSE from - 1)
             lim == scan_limit(limit)
         IN  IF ~(lim > 0) THEN Panic
             ELSE tokens_by_owner_loop(account, issuer_id,
                                       unwrap_or(with_expired, FALSE), first_key,
                                       <<>>, <<>>, issuer_id, lim)

\* sbt_tokens_by_owner ignoring with_expired (faulty variant)
sbt_tokens_by_owner_DropsExpired(account, issuer, from_class, limit, with_expired) ==
    IF from_class # None /\ issuer = None THEN Panic
    ELSE IF contains_key(ongoing_soul_tx, account) THEN Ok(<<>>)
    ELSE tokens_by_owner_scan(account, issuer, from_class, limit, None)

\* issuer, from_class, limit and with_expired are Options
sbt_tokens_by_owner(account, issuer, from_class, limit, with_expired) ==
    IF from_class # None /\ issuer = None THEN Panic
    ELSE IF contains_key(ongoing_soul_tx, account) THEN Ok(<<>>)
    ELSE tokens_by_owner_scan(account, issuer, from_class, limit, with_expired)

(***************************************************************************)
(* Transactions.  Each is computed on `self`, the record of the contract's *)
(* collections, and yields [ok, ret, events, st]: whether the call         *)
(* succeeded, what it returned, the events it emitted and the collections  *)
(* it leaves.  A call that panics returns and emits nothing.               *)
(***************************************************************************)
self == [supply_by_owner |-> supply_by_owner,
         supply_by_class |-> supply_by_class,
         supply_by_issuer |-> supply_by_issuer,
         balances |-> balances,
         issuer_tokens |-> issuer_tokens,
         next_token_ids |-> next_token_ids,
         ongoing_soul_tx |-> ongoing_soul_tx]

Abort == [ok |-> FALSE, ret |-> <<>>, events |-> <<>>, st |-> self]
Done(ret, st) == [ok |-> TRUE, ret |-> ret, events |-> <<>>, st |-> st]
\* SbtTokensEvent { issuer, tokens }.emit_burn() / .emit_revoke()
SbtTokensEvent(event, issuer, tokens) == [event |-> event, issuer |-> issuer, tokens |-> tokens]
Emit(r, events) == IF r.ok THEN [r EXCEPT !.events = events] ELSE r

\* a - b on u64: the subtraction panics when it would go below zero
checked_sub(a, b) == IF a >= b THEN Some(a - b) ELSE None

\* HashMap entry(k).and_modify(|v| *v += 1).or_insert(1)
count_entry(m, k) == insert(m, k, unwrap_or(get(m, k), 0) + 1)

\* subtracts revoked[k] from supply[key[k]] for every k of `revoked`; None when a
\* counter is missing (unwrap on None) or would go below zero
sub_supplies(supply, revoked, key) ==
    IF \E k \in DOMAIN revoked :
           \/ ~contains_key(supply, key[k])
           \/ checked_sub(supply[key[k]], revoked[k]) = None
    THEN None
    ELSE Some([x \in DOMAIN supply |->
                 IF \E k \in DOMAIN revoked : key[k] = x
                 THEN supply[x] - revoked[CHOOSE k \in DOMAIN revoked : key[k] = x]
                 ELSE supply[x]])

\* the loop `for token in tokens.clone()` of the burn branch of sbt_revoke
RECURSIVE revoke_burn_loop(_, _, _, _)
revoke_burn_loop(issuer_id, tokens, i, acc) ==
    IF i > Len(tokens) THEN acc
    ELSE LET token == tokens[i]
             t == get(acc.issuer_tokens, IssuerTokenId(issuer_id, token))
         IN  IF t = None THEN [acc EXCEPT !.ok = FALSE]     \* get_token panics
             ELSE
             LET owner == t[1].owner
                 class_id == t[1].metadata.class
             IN  revoke_burn_loop(issuer_id, tokens, i + 1,
                   [ok |-> TRUE,
                    balances |-> remove(acc.balances, BalanceKey(issuer_id, owner, class_id)),
                    revoked_per_class |-> count_entry(acc.revoked_per_class, class_id),
                    revoked_per_owner |-> count_entry(acc.revoked_per_owner, owner),
                    issuer_tokens |-> remove(acc.issuer_tokens,
                                             IssuerTokenId(issuer_id, token))])

\* the burn branch clamping supply_by_owner at zero (faulty variant)
revoke_supply_by_owner_Clamp(st, issuer_id, revoked_per_owner) ==
    Some([x \in DOMAIN st.supply_by_owner
                \cup {<<o, issuer_id>> : o \in DOMAIN revoked_per_owner} |->
            LET old == unwrap_or(get(st.supply_by_owner, x), 0)
                sub == IF x[2] = issuer_id /\ x[1] \in DOMAIN revoked_per_owner
                       THEN revoked_per_owner[x[1]] ELSE 0
            IN  IF old > sub THEN old - sub ELSE 0])

\* the burn branch leaving supply_by_owner as it is (faulty variant)
revoke_supply_by_owner_Skip(st, issuer_id, revoked_per_owner) == Some(st.supply_by_owner)

\* "update supply by owner" of sbt_revoke
revoke_supply_by_owner(st, issuer_id, revoked_per_owner) ==
    LET key == [owner_id \in DOMAIN revoked_per_owner |-> <<owner_id, issuer_id>>]
    IN  sub_supplies(st.supply_by_owner, revoked_per_owner, key)

\* "update supply by class" of sbt_revoke
revoke_supply_by_class(st, issuer_id, revoked_per_class) ==
    LET key == [class_id \in DOMAIN revoked_per_class |-> <<issuer_id, class_id>>]
    IN  sub_supplies(st.supply_by_class, revoked_per_class, key)

\* "update supply by issuer" of sbt_revoke
revoke_supply_by_issuer(st, issuer_id, tokens_burned) ==
    LET supply == checked_sub(unwrap_or(get(st.supply_by_issuer, issuer_id), 0),
                              tokens_burned)
    IN  IF supply = None THEN None
        ELSE Some(insert(st.supply_by_issuer, issuer_id, supply[1]))

\* the burn branch of sbt_revoke
revoke_burn(issuer_id, tokens) ==
    LET l == revoke_burn_loop(issuer_id, tokens, 1,
                 [ok |-> TRUE, balances |-> balances, issuer_tokens |-> issuer_tokens,
                  revoked_per_class |-> EmptyMap, revoked_per_owner |-> EmptyMap])
        by_owner == revoke_supply_by_owner(self, issuer_id, l.revoked_per_owner)
        by_class == revoke_supply_by_class(self, issuer_id, l.revoked_per_class)
        by_issuer == revoke_supply_by_issuer(self, issuer_id, Len(tokens))
    IN  IF ~l.ok \/ by_owner = None \/ by_class = None \/ by_issuer = None THEN Abort
        ELSE Done(<<>>, [self EXCEPT !.balances = l.balances,
                                     !.issuer_tokens = l.issuer_tokens,
                                     !.supply_by_owner = by_owner[1],
                                     !.supply_by_class = by_class[1],
                                     !.supply_by_issuer = by_issuer[1]])

\* the loop of the soft branch of sbt_revoke: expires_at = now on every token
RECURSIVE revoke_soft_loop(_, _, _, _)
revoke_soft_loop(issuer_id, tokens, i, toks) ==
    IF i > Len(tokens) THEN Some(toks)
    ELSE LET key == IssuerTokenId(issuer_id, tokens[i])
         IN  IF ~contains_key(toks, key) THEN None          \* get_token panics
             ELSE revoke_soft_loop(issuer_id, tokens, i + 1,
                    insert(toks, key,
                           [toks[key] EXCEPT !.metadata.expires_at = Some(now)]))

\* the non-burn branch removing the balance keys of the tokens (faulty variant)
revoke_soft_Unindex(issuer_id, tokens) ==
    LET toks == revoke_soft_loop(issuer_id, tokens, 1, issuer_tokens)
        kept == {k \in DOMAIN balances :
                    ~(k.issuer_id = issuer_id /\ \E n \in 1..Len(tokens) : balances[k] = tokens[n])}
    IN  IF toks = None THEN Abort
        ELSE Done(<<>>, [self EXCEPT !.issuer_tokens = toks[1],
                                     !.balances = [k \in kept |-> balances[k]]])

\* the non-burn branch expiring the listed token ids under every issuer (faulty variant)
revoke_soft_AllIssuers(issuer_id, tokens) ==
    LET toks == revoke_soft_loop(issuer_id, tokens, 1, issuer_tokens)
    IN  IF toks = None THEN Abort
        ELSE Done(<<>>, [self EXCEPT !.issuer_tokens =
                 [tid \in DOMAIN issuer_tokens |->
                     IF \E n \in 1..Len(tokens) : tid[2] = tokens[n]
                     THEN [issuer_tokens[tid] EXCEPT !.metadata.expires_at = Some(now)]
                     ELSE issuer_tokens[tid]]])

\* the non-burn branch of sbt_revoke: every token expires now
revoke_soft(issuer_id, tokens) ==
    LET toks == revoke_soft_loop(issuer_id, tokens, 1, issuer_tokens)
    IN  IF toks = None THEN Abort
        ELSE Done(<<>>, [self EXCEPT !.issuer_tokens = toks[1]])

\* sbt_revoke taking a caller that is no issuer for the first issuer (faulty variant)
sbt_revoke_NoAssert(caller, tokens, burn) ==
    LET issuer_id == IF is_issuer(caller) THEN assert_issuer(caller) ELSE 1
    IN  IF burn
        THEN Emit(revoke_burn(issuer_id, tokens),
                  <<SbtTokensEvent("burn", caller, tokens),
                    SbtTokensEvent("revoke", caller, tokens)>>)
        ELSE Emit(revoke_soft(issuer_id, tokens),
                  <<SbtTokensEvent("revoke", caller, tokens)>>)

\* sbt_revoke called by `caller`
sbt_revoke(caller, tokens, burn) ==
    IF ~is_issuer(caller) THEN Abort
    ELSE IF burn
    THEN Emit(revoke_burn(assert_issuer(caller), tokens),
              <<SbtTokensEvent("burn", caller, tokens),
                SbtTokensEvent("revoke", caller, tokens)>>)
    ELSE Emit(revoke_soft(assert_issuer(caller), tokens),
              <<SbtTokensEvent("revoke", caller, tokens)>>)

\* the loop `for t in tokens` of the burn branch of sbt_revoke_by_owner
RECURSIVE by_owner_burn_loop(_, _, _, _, _)
by_owner_burn_loop(issuer_id, owner, tokens, i, acc) ==
    IF i > Len(tokens) THEN acc
    ELSE LET t == tokens[i]
             class_id == t.metadata.class
         IN  by_owner_burn_loop(issuer_id, owner, tokens, i + 1,
               [balances |-> remove(acc.balances, BalanceKey(issuer_id, owner, class_id)),
                burned_per_class |-> count_entry(acc.burned_per_class, class_id),
                issuer_tokens |-> remove(acc.issuer_tokens,
                                         IssuerTokenId(issuer_id, t.token))])

\* the burn branch of sbt_revoke_by_owner
by_owner_burn(issuer_id, owner, tokens) ==
    LET l == by_owner_burn_loop(issuer_id, owner, tokens, 1,
                 [balances |-> balances, issuer_tokens |-> issuer_tokens,
                  burned_per_class |-> EmptyMap])
        tokens_burned == Len(tokens)
        key == <<owner, issuer_id>>
        old_supply == get(supply_by_owner, key)
        by_owner == IF old_supply = None THEN None
                    ELSE checked_sub(old_supply[1], tokens_burned)
        by_issuer == revoke_supply_by_issuer(self, issuer_id, tokens_burned)
        by_class == revoke_supply_by_class(self, issuer_id, l.burned_per_class)
    IN  IF by_owner = None \/ by_issuer = None \/ by_class = None THEN Abort
        ELSE Done(<<>>, [self EXCEPT !.balances = l.balances,
                                     !.issuer_tokens = l.issuer_tokens,
                                     !.supply_by_owner = insert(supply_by_owner, key, by_owner[1]),
                                     !.supply_by_issuer = by_issuer[1],
                                     !.supply_by_class = by_class[1]])

\* the loop of the soft branch of sbt_revoke_by_owner
RECURSIVE by_owner_soft_loop(_, _, _, _, _)
by_owner_soft_loop(issuer_id, owner, tokens, i, toks) ==
    IF i > Len(tokens) THEN toks
    ELSE LET t == tokens[i]
             token_data == TokenData(owner, [t.metadata EXCEPT !.expires_at = Some(now)])
         IN  by_owner_soft_loop(issuer_id, owner, tokens, i + 1,
                                insert(toks, IssuerTokenId(issuer_id, t.token), token_data))

by_owner_soft(issuer_id, owner, tokens) ==
    Done(<<>>, [self EXCEPT !.issuer_tokens =
                    by_owner_soft_loop(issuer_id, owner, tokens, 1, issuer_tokens)])

\* sbt_revoke_by_owner called by `caller`
sbt_revoke_by_owner(caller, owner, burn) ==
    IF ~is_issuer(caller) THEN Abort
    ELSE LET issuer_id == assert_issuer(caller)
             tokens_by_owner ==
                 sbt_tokens_by_owner(owner, Some(caller), None, None, Some(TRUE))
         IN  IF ~tokens_by_owner.ok THEN Abort
             ELSE IF tokens_by_owner.val = <<>> THEN Done(<<>>, self)
             ELSE LET tokens == tokens_by_owner.val[Len(tokens_by_owner.val)][2]
                      token_ids == [i \in 1..Len(tokens) |-> tokens[i].token]
                  IN  IF burn
                      THEN Emit(by_owner_burn(issuer_id, owner, tokens),
                                <<SbtTokensEvent("burn", caller, token_ids),
                                  SbtTokensEvent("revoke", caller, token_ids)>>)
                      ELSE Emit(by_owner_soft(issuer_id, owner, tokens),
                                <<SbtTokensEvent("revoke", caller, token_ids)>>)

\* supply counter += 1
increment(m, k) == insert(m, k, unwrap_or(get(m, k), 0) + 1)

\* token_spec as one list of <<owner, metadata>>, in the order of the input
RECURSIVE flatten(_)
flatten(token_spec) ==
    IF token_spec = <<>> THEN <<>>
    ELSE [i \in 1..Len(token_spec[1][2]) |-> <<token_spec[1][1], token_spec[1][2][i]>>]
         \o flatten(Tail(token_spec))

\* mint_loop giving the lowest id that carries no token (faulty variant)
RECURSIVE mint_loop_ReusesIds(_, _, _, _)
mint_loop_ReusesIds(issuer_id, pairs, i, acc) ==
    IF i > Len(pairs) THEN acc
    ELSE LET owner == pairs[i][1]
             metadata == pairs[i][2]
             key == balance_key(owner, issuer_id, metadata.class)
             highest == unwrap_or(get(acc.st.next_token_ids, issuer_id), 0)
             free == {t \in 1..(highest + 1) :
                         ~contains_key(acc.st.issuer_tokens, IssuerTokenId(issuer_id, t))}
             token == CHOOSE t \in free : \A u \in free : t <= u
         IN  IF metadata.class = 0 THEN Abort
             ELSE IF contains_key(acc.st.balances, key) THEN Abort
             ELSE mint_loop_ReusesIds(issuer_id, pairs, i + 1,
                    Done(Append(acc.ret, token),
                         [acc.st EXCEPT
                            !.next_token_ids =
                                insert(@, issuer_id, IF token > highest THEN token ELSE highest),
                            !.issuer_tokens =
                                insert(@, IssuerTokenId(issuer_id, token),
                                       TokenData(owner, metadata)),
                            !.balances = insert(@, key, token),
                            !.supply_by_owner = increment(@, <<owner, issuer_id>>),
                            !.supply_by_class = increment(@, <<issuer_id, metadata.class>>),
                            !.supply_by_issuer = increment(@, issuer_id)]))

\* mint_loop keeping the tokens minted before a rejected pair (faulty variant)
RECURSIVE mint_loop_Partial(_, _, _, _)
mint_loop_Partial(issuer_id, pairs, i, acc) ==
    IF i > Len(pairs) THEN acc
    ELSE LET owner == pairs[i][1]
             metadata == pairs[i][2]
             key == balance_key(owner, issuer_id, metadata.class)
             token == unwrap_or(get(acc.st.next_token_ids, issuer_id), 0) + 1
         IN  IF metadata.class = 0 \/ contains_key(acc.st.balances, key)
             THEN [acc EXCEPT !.ok = FALSE, !.ret = <<>>]
             ELSE mint_loop_Partial(issuer_id, pairs, i + 1,
                    Done(Append(acc.ret, token),
                         [acc.st EXCEPT
                            !.next_token_ids = insert(@, issuer_id, token),
                            !.issuer_tokens =
                                insert(@, IssuerTokenId(issuer_id, token),
                                       TokenData(owner, metadata)),
                            !.balances = insert(@, key, token),
                            !.supply_by_owner = increment(@, <<owner, issuer_id>>),
                            !.supply_by_class = increment(@, <<issuer_id, metadata.class>>),
                            !.supply_by_issuer = increment(@, issuer_id)]))

\* mints pairs[i..]: acc is [ok, ret, st]
RECURSIVE mint_loop(_, _, _, _)
mint_loop(issuer_id, pairs, i, acc) ==
    IF i > Len(pairs) THEN acc
    ELSE LET owner == pairs[i][1]
             metadata == pairs[i][2]
             key == balance_key(owner, issuer_id, metadata.class)
             token == unwrap_or(get(acc.st.next_token_ids, issuer_id), 0) + 1
         IN  IF metadata.class = 0 THEN Abort
             ELSE IF contains_key(acc.st.balances, key) THEN Abort
             ELSE mint_loop(issuer_id, pairs, i + 1,
                    Done(Append(acc.ret, token),
                         [acc.st EXCEPT
                            !.next_token_ids = insert(@, issuer_id, token),
                            !.issuer_tokens =
                                insert(@, IssuerTokenId(issuer_id, token),
                                       TokenData(owner, metadata)),
                            !.balances = insert(@, key, token),
                            !.supply_by_owner = increment(@, <<owner, issuer_id>>),
                            !.supply_by_class = increment(@, <<issuer_id, metadata.class>>),
                            !.supply_by_issuer = increment(@, issuer_id)]))

\* _sbt_mint: `enough_deposit` tells whether the attached value covers the storage
sbt_mint(caller, token_spec, enough_deposit) ==
    IF ~is_issuer(caller) THEN Abort
    ELSE IF ~enough_deposit THEN Abort
    ELSE mint_loop(assert_issuer(caller), flatten(token_spec), 1, Done(<<>>, self))

\* the keys that follow `cursor` in the balances map up to and including k
scan_upto(cursor, k) ==
    {j \in DOMAIN balances : BalanceKeyLess(cursor, j) /\ ~BalanceKeyLess(k, j)}

\* the scan of _sbt_recover: the first `limit` keys after `cursor`, as long as
\* they are keys of (issuer_id, from)
recover_scan(issuer_id, from, cursor, limit) ==
    {k \in DOMAIN balances :
        /\ BalanceKeyLess(cursor, k)
        /\ Cardinality(scan_upto(cursor, k)) <= limit
        /\ \A j \in scan_upto(cursor, k) : j.issuer_id = issuer_id /\ j.owner = from}

\* the last key of a scan
last_key(keys) == CHOOSE k \in keys : \A j \in keys : ~BalanceKeyLess(k, j)

\* recover_loop moving the per-owner supply with the tokens (variant)
recover_loop_MovesSupply(keys, from, to, st) ==
    LET moved_to(k) == k.owner = to /\ BalanceKey(k.issuer_id, from, k.class_id) \in keys
        n == Cardinality(keys)
        issuer_id == (CHOOSE k \in keys : TRUE).issuer_id
        from_key == <<from, issuer_id>>
        to_key == <<to, issuer_id>>
    IN  IF keys = {} THEN st
        ELSE [st EXCEPT
                !.balances =
                    [k \in (DOMAIN @ \ keys)
                           \cup {BalanceKey(j.issuer_id, to, j.class_id) : j \in keys} |->
                        IF moved_to(k) THEN @[BalanceKey(k.issuer_id, from, k.class_id)]
                        ELSE @[k]],
                !.issuer_tokens =
                    [tid \in DOMAIN @ |->
                        IF \E j \in keys : tid = IssuerTokenId(j.issuer_id, st.balances[j])
                        THEN [@[tid] EXCEPT !.owner = to]
                        ELSE @[tid]],
                !.supply_by_owner =
                    [x \in DOMAIN @ \cup {from_key, to_key} |->
                        IF x = to_key THEN unwrap_or(get(@, x), 0) + n
                        ELSE IF x = from_key THEN unwrap_or(get(@, x), n) - n
                        ELSE @[x]]]

\* moves the tokens under `keys` from `from` to `to`: each old key is removed,
\* the key under `to` inserted and the owner of the token rewritten
recover_loop(keys, from, to, st) ==
    LET moved_to(k) == k.owner = to /\ BalanceKey(k.issuer_id, from, k.class_id) \in keys
    IN  [st EXCEPT
            !.balances =
                [k \in (DOMAIN @ \ keys)
                       \cup {BalanceKey(j.issuer_id, to, j.class_id) : j \in keys} |->
                    IF moved_to(k) THEN @[BalanceKey(k.issuer_id, from, k.class_id)]
                    ELSE @[k]],
            !.issuer_tokens =
                [tid \in DOMAIN @ |->
                    IF \E j \in keys : tid = IssuerTokenId(j.issuer_id, st.balances[j])
                    THEN [@[tid] EXCEPT !.owner = to]
                    ELSE @[tid]]]

\* recover_result setting the guard again when nothing was moved (faulty variant)
recover_result_KeepsGuard(issuer_id, keys, from, moved) ==
    LET done == \A k \in DOMAIN moved.balances :
                    ~(k.issuer_id = issuer_id /\ k.owner = from)
    IN  Done(<<Cardinality(keys), done>>,
             [moved EXCEPT !.ongoing_soul_tx =
                  IF done /\ keys # {} THEN remove(@, from)
                  ELSE insert(@, from,
                              IssuerTokenId(issuer_id,
                                  IF keys = {} THEN 0 ELSE balances[last_key(keys)]))])

\* the result of _sbt_recover once the scan has found `keys`
recover_result(issuer_id, keys, from, moved) ==
    LET done == \A k \in DOMAIN moved.balances :
                    ~(k.issuer_id = issuer_id /\ k.owner = from)
    IN  IF \E k \in keys : ~contains_key(issuer_tokens, IssuerTokenId(issuer_id, balances[k]))
        THEN Abort
        ELSE Done(<<Cardinality(keys), done>>,
                  [moved EXCEPT !.ongoing_soul_tx =
                       IF done THEN remove(@, from)
                       ELSE insert(@, from,
                                   IssuerTokenId(issuer_id, balances[last_key(keys)]))])

\* _sbt_recover(from, to, limit): returns (tokens moved, done)
_sbt_recover(caller, from, to, limit) ==
    IF ~is_issuer(caller) THEN Abort
    ELSE LET issuer_id == assert_issuer(caller)
         IN  CHOOSE r \in {recover_result(issuer_id, keys, from, recover_loop(keys, from, to, self)) :
                           keys \in {recover_scan(issuer_id, from,
                                                  balance_key(from, issuer_id, 0), limit)}} : TRUE

\* sbt_recover with the query limit as batch size (faulty variant)
sbt_recover_WrongLimit(caller, from, to) == _sbt_recover(caller, from, to, MAX_LIMIT)

sbt_recover(caller, from, to) == _sbt_recover(caller, from, to, RECOVER_LIMIT)

\* the loop of _sbt_renew
RECURSIVE renew_loop(_, _, _, _, _)
renew_loop(issuer_id, tokens, expires_at, i, toks) ==
    IF i > Len(tokens) THEN Some(toks)
    ELSE LET key == IssuerTokenId(issuer_id, tokens[i])
         IN  IF ~contains_key(toks, key) THEN None
             ELSE renew_loop(issuer_id, tokens, expires_at, i + 1,
                    insert(toks, key,
                           [toks[key] EXCEPT !.metadata.expires_at = Some(expires_at)]))

\* _sbt_renew
sbt_renew(caller, tokens, expires_at) ==
    IF ~is_issuer(caller) THEN Abort
    ELSE LET toks == renew_loop(assert_issuer(caller), tokens, expires_at, 1, issuer_tokens)
         IN  IF toks = None THEN Abort
             ELSE Done(<<>>, [self EXCEPT !.issuer_tokens = toks[1]])

(***************************************************************************)
(* The state machine: the registry with two registered issuers, called     *)
(* with arguments drawn from small sets.  In Spec a recovery moves tokens  *)
(* between two different accounts.                                         *)
(***************************************************************************)
\* the NEAR every account owns at the start, and the deposit register_human_token asks for
MaxNear == 3
REGISTER_HUMAN_DEPOSIT == 2

\* Contract::new(authority, iah_issuer, iah_classes, ...), then the two issuers are
\* registered; the human_checker starts with nothing recorded
new(iah_issuer, iah_classes) ==
    /\ iah_sbts = <<iah_issuer, iah_classes>>
    /\ used_tokens = EmptyMap
    /\ near_balance = [a \in Accounts \cup {"carol"} |-> MaxNear]
    /\ sbt_issuers = [a \in {"issuer1", "issuer2"} |-> IF a = "issuer1" THEN 1 ELSE 2]
    /\ supply_by_owner = EmptyMap
    /\ supply_by_class = EmptyMap
    /\ supply_by_issuer = EmptyMap
    /\ balances = EmptyMap
    /\ issuer_tokens = EmptyMap
    /\ next_token_ids = EmptyMap
    /\ ongoing_soul_tx = EmptyMap
    /\ now = 0
    /\ last = [op |-> "new", ok |-> TRUE, ret |-> <<>>, events |-> <<>>]
    /\ phase = "setup"
    /\ snapshot = EmptyMap

\* the registry as the tests construct it: issuer1 is the IAH issuer, class 1 the IAH class
Init == new("issuer1", <<1>>)

\* the call `op` with outcome r: its state is committed, or left as it was on a panic
Call(op, r) ==
    /\ last' = [op |-> op, ok |-> r.ok, ret |-> r.ret, events |-> r.events]
    /\ supply_by_owner' = r.st.supply_by_owner
    /\ supply_by_class' = r.st.supply_by_class
    /\ supply_by_issuer' = r.st.supply_by_issuer
    /\ balances' = r.st.balances
    /\ issuer_tokens' = r.st.issuer_tokens
    /\ next_token_ids' = r.st.next_token_ids
    /\ ongoing_soul_tx' = r.st.ongoing_soul_tx
    /\ UNCHANGED <<sbt_issuers, iah_sbts, now>>

\* the number of token ids assigned so far
Assigned == unwrap_or(get(next_token_ids, 1), 0) + unwrap_or(get(next_token_ids, 2), 0)

\* arguments of the calls
ClassArgs == 0..MaxClass
TokenArgs == 1..MaxTokens
TokenLists == {<<t>> : t \in TokenArgs} \cup {<<t, u>> : t \in TokenArgs, u \in TokenArgs}
TokenSpecs == {<<<<o, <<TokenMetadata(c, None)>>>>>> : o \in Accounts, c \in ClassArgs}

Mint(caller, token_spec, enough_deposit) ==
    /\ Assigned + Len(flatten(token_spec)) <= MaxTokens
    /\ Call("sbt_mint", sbt_mint(caller, token_spec, enough_deposit))
    /\ UNCHANGED <<phase, snapshot, used_tokens, near_balance>>

Revoke(caller, tokens, burn) ==
    /\ Call("sbt_revoke", sbt_revoke(caller, tokens, burn))
    /\ UNCHANGED <<phase, snapshot, used_tokens, near_balance>>

RevokeByOwner(caller, owner, burn) ==
    /\ Call("sbt_revoke_by_owner", sbt_revoke_by_owner(caller, owner, burn))
    /\ UNCHANGED <<phase, snapshot, used_tokens, near_balance>>

Recover(caller, from, to) ==
    /\ Call("sbt_recover", sbt_recover(caller, from, to))
    /\ UNCHANGED <<phase, snapshot, used_tokens, near_balance>>

Renew(caller, tokens, expires_at) ==
    /\ Call("sbt_renew", sbt_renew(caller, tokens, expires_at))
    /\ UNCHANGED <<phase, snapshot, used_tokens, near_balance>>

\* the block timestamp advances between calls
Tick ==
    /\ now < MaxTime
    /\ now' = now + 1
    /\ UNCHANGED <<ledger, last, phase, snapshot, used_tokens, near_balance>>

Next ==
    \/ \E c \in Callers, ts \in TokenSpecs, d \in BOOLEAN : Mint(c, ts, d)
    \/ \E c \in Callers, ts \in TokenLists, b \in BOOLEAN : Revoke(c, ts, b)
    \/ \E c \in Callers, o \in Accounts, b \in BOOLEAN : RevokeByOwner(c, o, b)
    \/ \E c \in Callers, f \in Accounts : \E t \in Accounts \ {f} : Recover(c, f, t)
    \/ \E c \in Callers, t \in TokenArgs, e \in 0..MaxTime : Renew(c, <<t>>, e)
    \/ Tick

Spec == Init /\ [][Next]_vars

(***************************************************************************)
(* The recovery scenario: issuer1 mints up to MaxBulk tokens of classes    *)
(* 1..n to alice in one call, other tokens are minted and revoked around   *)
(* them, and then issuer1 recovers alice's tokens to carol, call after     *)
(* call, with no other transaction in between.                             *)
(***************************************************************************)
\* the metadata list of classes 1..n
BulkMetadata(n) == [c \in 1..n |-> TokenMetadata(c, None)]

BulkMint(n) ==
    /\ phase = "setup"
    /\ ~contains_key(next_token_ids, 1)
    /\ Call("sbt_mint", sbt_mint("issuer1", <<<<"alice", BulkMetadata(n)>>>>, TRUE))
    /\ UNCHANGED <<phase, snapshot, used_tokens, near_balance>>

\* a token of class 1 for carol from issuer1, or for alice from issuer2
SingleMint(caller, owner) ==
    /\ phase = "setup"
    /\ Call("sbt_mint", sbt_mint(caller, <<<<owner, <<TokenMetadata(1, None)>>>>>>, TRUE))
    /\ UNCHANGED <<phase, snapshot, used_tokens, near_balance>>

SetupRevoke(tokens, burn) ==
    /\ phase = "setup"
    /\ Call("sbt_revoke", sbt_revoke("issuer1", tokens, burn))
    /\ UNCHANGED <<phase, snapshot, used_tokens, near_balance>>

RecoverCall ==
    \E r \in {sbt_recover("issuer1", "alice", "carol")} :
        /\ Call("sbt_recover", r)
        /\ phase' = IF r.ret[2] THEN "done" ELSE "recovering"
        /\ snapshot' = IF phase = "setup" THEN issuer_tokens ELSE snapshot
        /\ UNCHANGED <<used_tokens, near_balance>>

NextRecover ==
    \/ \E n \in 1..MaxBulk : BulkMint(n)
    \/ SingleMint("issuer1", "carol")
    \/ SingleMint("issuer2", "alice")
    \/ SetupRevoke(<<6>>, TRUE)
    \/ SetupRevoke(<<5>>, FALSE)
    \/ RecoverCall
    \/ Tick

SpecRecover == Init /\ [][NextRecover]_vars /\ WF_vars(RecoverCall)

(***************************************************************************)
(* The recovery scenario interleaved: while issuer1 recovers alice's       *)
(* tokens to carol, issuer2 may recover its own tokens from alice to carol *)
(* between any two calls of issuer1.                                       *)
(***************************************************************************)
OtherRecover ==
    /\ phase = "recovering"
    /\ Call("sbt_recover", sbt_recover("issuer2", "alice", "carol"))
    /\ UNCHANGED <<phase, snapshot, used_tokens, near_balance>>

NextInterleave ==
    \/ NextRecover
    \/ OtherRecover

SpecInterleave == Init /\ [][NextInterleave]_vars

(***************************************************************************)
(* The is-human handshake: the registry validates that the caller holds a  *)
(* token of every IAH class and then calls register_human_token on the     *)
(* human_checker contract with the proof, the payload and the deposit.     *)
(***************************************************************************)
\* the token id the Balance Index holds for the account and the class under the IAH issuer
iah_token(account, cls) ==
    get(balances, balance_key(account, assert_issuer(iah_sbts[1]), cls))

\* the account holds a token of the class that the registry's expiry filter lets through
has_iah_class(account, cls) ==
    LET token == iah_token(account, cls)
    IN  /\ token # None
        /\ contains_key(issuer_tokens, <<assert_issuer(iah_sbts[1]), token[1]>>)
        /\ ~is_expired(issuer_tokens[<<assert_issuer(iah_sbts[1]), token[1]>>].metadata)

\* the proof that the account is human, vec![(issuer, tokens)], empty when a class is missing
_is_human(account) ==
    LET classes == iah_sbts[2]
    IN  IF \A k \in 1..Len(classes) : has_iah_class(account, classes[k])
        THEN <<<<iah_sbts[1], [k \in 1..Len(classes) |-> iah_token(account, classes[k])[1]]>>>>
        ELSE <<>>

\* human_checker: register_human_token(caller, iah_proof, payload), deposit attached.
\* It panics on a deposit below REGISTER_HUMAN_DEPOSIT and on an empty proof,
\* otherwise it records the proof for the caller and returns true.
register_human_token(caller, iah_proof, payload, deposit) ==
    IF deposit < REGISTER_HUMAN_DEPOSIT \/ iah_proof = <<>>
    THEN [ok |-> FALSE, ret |-> <<"human_checker">>, used_tokens |-> used_tokens]
    ELSE [ok |-> TRUE, ret |-> <<TRUE>>,
          used_tokens |-> insert(used_tokens, caller, iah_proof)]

\* human_checker: recorded_sbts(account)
recorded_sbts(account) == get(used_tokens, account)

\* is_human_call with the deposit left at the target when the target panics (faulty variant)
is_human_call_KeepsDeposit(caller, payload, deposit) ==
    LET iah_proof == _is_human(caller)
        r == register_human_token(caller, iah_proof, payload, deposit)
    IN  IF iah_proof = <<>>
        THEN [ok |-> FALSE, ret |-> <<"registry">>, events |-> <<>>, st |-> self,
              used_tokens |-> used_tokens, refund |-> deposit]
        ELSE IF ~r.ok
        THEN [ok |-> FALSE, ret |-> r.ret, events |-> <<>>, st |-> self,
              used_tokens |-> used_tokens, refund |-> 0]
        ELSE [ok |-> TRUE, ret |-> r.ret, events |-> <<>>, st |-> self,
              used_tokens |-> r.used_tokens, refund |-> 0]

\* registry: is_human_call(ctr, function, payload) by the caller with the deposit
\* attached.  A panic in the registry or in the target refunds the deposit;
\* the result names the contract that panicked.
is_human_call(caller, payload, deposit) ==
    LET iah_proof == _is_human(caller)
        r == register_human_token(caller, iah_proof, payload, deposit)
    IN  IF iah_proof = <<>>
        THEN [ok |-> FALSE, ret |-> <<"registry">>, events |-> <<>>, st |-> self,
              used_tokens |-> used_tokens, refund |-> deposit]
        ELSE IF ~r.ok
        THEN [ok |-> FALSE, ret |-> r.ret, events |-> <<>>, st |-> self,
              used_tokens |-> used_tokens, refund |-> deposit]
        ELSE [ok |-> TRUE, ret |-> r.ret, events |-> <<>>, st |-> self,
              used_tokens |-> r.used_tokens, refund |-> 0]

\* the payloads and the deposits of the calls
Payloads == {"registering"}
Deposits == 1..REGISTER_HUMAN_DEPOSIT
\* the lists of IAH classes the registry is constructed with
IahClassLists == {<<1>>, <<1, 2>>}

IsHumanCall(caller, payload, deposit) ==
    /\ deposit <= near_balance[caller]
    /\ \E r \in {is_human_call(caller, payload, deposit)} :
           /\ Call("is_human_call", r)
           /\ used_tokens' = r.used_tokens
           /\ near_balance' = [near_balance EXCEPT ![caller] = @ - deposit + r.refund]
    /\ UNCHANGED <<phase, snapshot>>

NextHuman ==
    \/ \E c \in {"issuer1", "issuer2"}, ts \in TokenSpecs : Mint(c, ts, TRUE)
    \/ \E t \in TokenArgs, b \in BOOLEAN : Revoke("issuer1", <<t>>, b)
    \/ \E t \in TokenArgs, e \in 0..MaxTime : Renew("issuer1", <<t>>, e)
    \/ \E c \in Accounts \cup {"carol"}, p \in Payloads, d \in Deposits : IsHumanCall(c, p, d)
    \/ Tick

InitHuman == \E iah_classes \in IahClassLists : new("issuer1", iah_classes)

SpecHuman == InitHuman /\ [][NextHuman]_vars

(***************************************************************************)
(* Properties.                                                             *)
(***************************************************************************)
\* every account that can own a token, every class a token can have
Owners == Accounts \cup {"carol"}
Classes == 1..(IF MaxBulk > MaxClass THEN MaxBulk ELSE MaxClass)

\* the ids of the stored tokens of issuer i
StoredTokens(i) == {tid \in DOMAIN issuer_tokens : tid[1] = i}

supply_of(m, k) == unwrap_or(get(m, k), 0)

\* the sum of the values of a function with a finite domain
RECURSIVE Sum(_)
Sum(f) ==
    IF DOMAIN f = {} THEN 0
    ELSE LET x == CHOOSE y \in DOMAIN f : TRUE
         IN  f[x] + Sum([y \in DOMAIN f \ {x} |-> f[y]])

\* C1: every supply counter equals the number of stored tokens matching its key,
\* so the per-class and the per-owner counters of an issuer add up to its supply.
C1_SupplyEqualsTokens ==
    \A i \in IssuerIds :
        LET by_class(c) == supply_of(supply_by_class, <<i, c>>)
            by_owner(o) == supply_of(supply_by_owner, <<o, i>>)
        IN  /\ supply_of(supply_by_issuer, i) = Cardinality(StoredTokens(i))
            /\ \A c \in Classes :
                   by_class(c) = Cardinality({tid \in StoredTokens(i) :
                                                 issuer_tokens[tid].metadata.class = c})
            /\ \A o \in Owners :
                   by_owner(o) = Cardinality({tid \in StoredTokens(i) :
                                                 issuer_tokens[tid].owner = o})
            /\ supply_of(supply_by_issuer, i) = Sum([c \in Classes |-> by_class(c)])
            /\ supply_of(supply_by_issuer, i) = Sum([o \in Owners |-> by_owner(o)])

\* C2: an owner has at most one stored token of a class from an issuer, and the
\* Balance Index maps that (issuer, owner, class) to it.
C2_OneTokenPerBalanceKey ==
    \A i \in IssuerIds, o \in Owners, c \in Classes :
        LET tokens == {tid \in StoredTokens(i) :
                          /\ issuer_tokens[tid].owner = o
                          /\ issuer_tokens[tid].metadata.class = c}
        IN  /\ Cardinality(tokens) <= 1
            /\ \A tid \in tokens : get(balances, BalanceKey(i, o, c)) = Some(tid[2])

\* the effect of burning the tokens S of issuer i: the Token Store loses exactly
\* them, the Balance Index exactly their keys, and each counter drops by the
\* number of burned tokens matching its key
BurnEffect(i, S) ==
    LET burned == {IssuerTokenId(i, t) : t \in S}
        key_of(tid) == BalanceKey(i, issuer_tokens[tid].owner,
                                  issuer_tokens[tid].metadata.class)
    IN  /\ burned \subseteq DOMAIN issuer_tokens
        /\ DOMAIN issuer_tokens' = DOMAIN issuer_tokens \ burned
        /\ \A tid \in DOMAIN issuer_tokens' : issuer_tokens'[tid] = issuer_tokens[tid]
        /\ DOMAIN balances' = DOMAIN balances \ {key_of(tid) : tid \in burned}
        /\ \A k \in DOMAIN balances' : balances'[k] = balances[k]
        /\ \A j \in IssuerIds :
               /\ supply_of(supply_by_issuer', j) =
                      supply_of(supply_by_issuer, j)
                      - (IF j = i THEN Cardinality(S) ELSE 0)
               /\ \A o \in Owners :
                      supply_of(supply_by_owner', <<o, j>>) =
                          supply_of(supply_by_owner, <<o, j>>)
                          - (IF j = i
                             THEN Cardinality({tid \in burned : issuer_tokens[tid].owner = o})
                             ELSE 0)
               /\ \A c \in Classes :
                      supply_of(supply_by_class', <<j, c>>) =
                          supply_of(supply_by_class, <<j, c>>)
                          - (IF j = i
                             THEN Cardinality({tid \in burned :
                                                  issuer_tokens[tid].metadata.class = c})
                             ELSE 0)

Range(seq) == {seq[n] : n \in 1..Len(seq)}

\* the step is a call (the timestamp does not advance) that emitted event `kind`
Emitted(kind) == IF now' = now THEN {e \in Range(last'.events) : e.event = kind} ELSE {}

\* C3: a successful burn, by token list or by owner, of k distinct tokens removes
\* exactly those tokens and their balance keys and lowers supply_by_issuer by k and
\* each per-owner and per-class counter by the number of burned tokens matching it.
C3_BurnEffect ==
    [][\A e \in Emitted("burn") :
           /\ Cardinality(Range(e.tokens)) = Len(e.tokens)
           /\ BurnEffect(assert_issuer(e.issuer), Range(e.tokens))]_vars

\* a burn of two tokens in one call has succeeded
C3_Witness ==
    /\ last.op = "sbt_revoke" /\ last.ok
    /\ \E e \in Range(last.events) : e.event = "burn" /\ Len(e.tokens) = 2


\* the supply counters, the Balance Index and the Continuation Guard are unchanged
IndexAndCountersUnchanged ==
    UNCHANGED <<balances, supply_by_owner, supply_by_class, supply_by_issuer,
                ongoing_soul_tx>>

\* the effect of soft-revoking the tokens S of issuer i at the current time
SoftRevokeEffect(i, S) ==
    LET targeted == {IssuerTokenId(i, t) : t \in S}
    IN  /\ IndexAndCountersUnchanged
        /\ targeted \subseteq DOMAIN issuer_tokens
        /\ DOMAIN issuer_tokens' = DOMAIN issuer_tokens
        /\ \A tid \in DOMAIN issuer_tokens :
               IF tid \in targeted
               THEN /\ issuer_tokens'[tid].metadata.expires_at = Some(now)
                    /\ issuer_tokens'[tid].owner = issuer_tokens[tid].owner
                    /\ issuer_tokens'[tid].metadata.class = issuer_tokens[tid].metadata.class
               ELSE issuer_tokens'[tid] = issuer_tokens[tid]

\* C4: a soft revoke, by token list or by owner, sets expires_at = now on each
\* targeted token and changes nothing else: not the Balance Index, the supply
\* counters, the Continuation Guard, the targeted tokens' owner and class, nor
\* any other token.
C4_SoftRevokeFrame ==
    [][Emitted("burn") = {} =>
           \A e \in Emitted("revoke") :
               SoftRevokeEffect(assert_issuer(e.issuer), Range(e.tokens))]_vars

\* a soft revoke by owner has expired two tokens that are still stored and indexed
C4_Witness ==
    /\ last.op = "sbt_revoke_by_owner" /\ last.ok
    /\ \E e \in Range(last.events) :
           /\ e.event = "revoke" /\ Len(e.tokens) = 2
           /\ \A n \in 1..2 :
                  LET tid == IssuerTokenId(assert_issuer(e.issuer), e.tokens[n])
                  IN  /\ contains_key(issuer_tokens, tid)
                      /\ issuer_tokens[tid].metadata.expires_at = Some(now)
                      /\ \E k \in DOMAIN balances : balances[k] = e.tokens[n]

OptIssuers == {None} \cup {Some(c) : c \in Callers}
OptClasses == {None} \cup {Some(c) : c \in 0..MaxClass}
OptLimits == {None} \cup {Some(l) : l \in 0..2}
OptFlags == {None, Some(TRUE), Some(FALSE)}

\* the owner-scoped queries of account a answer zero and empty for these arguments
Masked(a, issuer, from_class, limit, with_expired) ==
    sbt_tokens_by_owner(a, issuer, from_class, limit, with_expired) = Ok(<<>>)

MaskedSupply(a) ==
    \A issuer \in Callers, class \in OptClasses :
        sbt_supply_by_owner(a, issuer, class) = 0

\* C5 as stated: while the Continuation Guard is set for an account, its
\* sbt_supply_by_owner is 0 and its sbt_tokens_by_owner is the empty list for
\* every combination of issuer, from_class, limit and with_expired.
C5_GuardMasksEveryQuery ==
    \A a \in DOMAIN ongoing_soul_tx :
        /\ MaskedSupply(a)
        /\ \A issuer \in OptIssuers, from_class \in OptClasses, limit \in OptLimits,
              with_expired \in OptFlags :
               Masked(a, issuer, from_class, limit, with_expired)

\* C5 amended: the same for every combination in which a from_class comes with
\* an issuer; a from_class without an issuer is rejected before the guard is read.
C5_GuardMasksQueries ==
    \A a \in DOMAIN ongoing_soul_tx :
        /\ MaskedSupply(a)
        /\ \A issuer \in OptIssuers, from_class \in OptClasses, limit \in OptLimits,
              with_expired \in OptFlags :
               (from_class = None \/ issuer # None) =>
                   Masked(a, issuer, from_class, limit, with_expired)

\* the guard is set for an account that still has a stored and indexed token
C5_Witness ==
    \E a \in DOMAIN ongoing_soul_tx :
        \E k \in DOMAIN balances :
            /\ k.owner = a
            /\ contains_key(issuer_tokens, IssuerTokenId(k.issuer_id, balances[k]))
            /\ issuer_tokens[IssuerTokenId(k.issuer_id, balances[k])].owner = a

\* the stored tokens of issuer1 that alice owns
FromTokens == {tid \in DOMAIN issuer_tokens :
                  tid[1] = 1 /\ issuer_tokens[tid].owner = "alice"}

\* a step of the recovery protocol: it moves min(20, remaining) tokens, answers
\* done exactly when alice has no token of issuer1 left, and leaves the guard
\* set exactly when it answers done = false
RecoverStep ==
    LET remaining == Cardinality(FromTokens)
        moved == IF remaining < 20 THEN remaining ELSE 20
    IN  /\ last'.ok
        /\ Cardinality(FromTokens') = remaining - moved
        /\ last'.ret = <<moved, FromTokens' = {}>>
        /\ contains_key(ongoing_soul_tx', "alice") <=> ~last'.ret[2]
        /\ remaining = 25 => last'.ret = <<20, FALSE>>
        /\ remaining = 5 => last'.ret = <<5, TRUE>>

\* C6: successive sbt_recover calls each move min(20, remaining) tokens, return
\* done = true exactly when none remains and leave the guard set iff done = false
\* (25 tokens: (20, false) then (5, true)); the protocol reaches done = true.
C6_RecoverProtocol ==
    /\ [][(now' = now /\ last'.op = "sbt_recover") => RecoverStep]_vars
    /\ <>(phase = "done")

\* the recovery of 25 tokens has finished with its second call
C6_Witness ==
    /\ phase = "done" /\ last.op = "sbt_recover" /\ last.ret = <<5, TRUE>>
    /\ Cardinality({tid \in DOMAIN snapshot :
                       tid[1] = 1 /\ snapshot[tid].owner = "alice"}) = 25

\* the tokens of issuer1 that alice owned when the recovery started
Recovered == {tid \in DOMAIN snapshot : tid[1] = 1 /\ snapshot[tid].owner = "alice"}

\* the OwnedTokens that sbt_tokens_by_owner lists for the account under issuer1
Listed(account, with_expired) ==
    LET r == sbt_tokens_by_owner(account, Some("issuer1"), None, None, with_expired)
    IN  IF r.ok
        THEN UNION {Range(r.val[g][2]) : g \in {g \in 1..Len(r.val) : r.val[g][1] = "issuer1"}}
        ELSE {}

\* C7: once the recovery from alice to carol has returned done = true, every
\* token of the issuer that alice owned before it is stored with owner carol and
\* the same id and metadata and is indexed under carol only; alice owns no token
\* of the issuer; sbt_tokens_by_owner lists all of them for carol (the expired
\* ones when with_expired is set) and none for alice; the tokens of other
\* issuers are untouched.
C7_RecoveryComplete ==
    LET listed == Listed("carol", Some(TRUE))
        unexpired == Listed("carol", None)
    IN  phase = "done" =>
            /\ \A tid \in Recovered :
                   LET class == snapshot[tid].metadata.class
                   IN  /\ contains_key(issuer_tokens, tid)
                       /\ issuer_tokens[tid] = TokenData("carol", snapshot[tid].metadata)
                       /\ get(balances, balance_key("carol", 1, class)) = Some(tid[2])
                       /\ OwnedToken(tid[2], snapshot[tid].metadata) \in listed
                       /\ is_expired(snapshot[tid].metadata)
                          \/ OwnedToken(tid[2], snapshot[tid].metadata) \in unexpired
            /\ FromTokens = {}
            /\ \A k \in DOMAIN balances : ~(k.issuer_id = 1 /\ k.owner = "alice")
            /\ sbt_tokens_by_owner("alice", Some("issuer1"), None, None, Some(TRUE)) = Ok(<<>>)
            /\ \A tid \in DOMAIN snapshot :
                   tid[1] # 1 =>
                       /\ get(issuer_tokens, tid) = Some(snapshot[tid])
                       /\ get(balances, balance_key(snapshot[tid].owner, tid[1],
                                                    snapshot[tid].metadata.class)) = Some(tid[2])

\* a recovery of more than one batch has finished; alice also held a token of
\* another issuer and one of the recovered tokens has expired
C7_Witness ==
    /\ phase = "done"
    /\ Cardinality(Recovered) > 20
    /\ \E tid \in DOMAIN snapshot : tid[1] = 2 /\ snapshot[tid].owner = "alice"
    /\ \E tid \in Recovered : is_expired(snapshot[tid].metadata)

FromArgs == {None} \cup {Some(t) : t \in 1..8}
LimitArgs == {None} \cup {Some(l) : l \in 1..3}
Issuers == {"issuer1", "issuer2"}

\* the token is stored and passes the expiry filter of the query
Visible(issuer_id, token, with_expired) ==
    /\ contains_key(issuer_tokens, IssuerTokenId(issuer_id, token))
    /\ unwrap_or(with_expired, FALSE)
       \/ ~is_expired(issuer_tokens[IssuerTokenId(issuer_id, token)].metadata)

Ascending(tokens) ==
    \A m \in 1..Len(tokens), n \in 1..Len(tokens) : m < n => tokens[m].token < tokens[n].token

\* the query returns exactly the tokens with the ids `ids`, in ascending order
Returns(issuer, from_token, limit, with_expired, ids) ==
    LET r == sbt_tokens(issuer, from_token, limit, with_expired)
    IN  /\ r.ok
        /\ Ascending(r.val)
        /\ {t.token : t \in Range(r.val)} = ids
        /\ \A t \in Range(r.val) :
               t = to_token(issuer_tokens[IssuerTokenId(sbt_issuers[issuer], t.token)], t.token)

\* ids 5 and 7 of issuer1 are stored, id 6 has been burned
Hole6 ==
    /\ contains_key(issuer_tokens, IssuerTokenId(1, 5))
    /\ ~contains_key(issuer_tokens, IssuerTokenId(1, 6))
    /\ contains_key(issuer_tokens, IssuerTokenId(1, 7))

\* C10 as stated: sbt_tokens returns, in ascending order, the first `limit`
\* stored (and, unless with_expired, non-expired) tokens of the issuer with
\* id >= from_token; with ids 5 and 7 stored and 6 burned, from_token = 5 and
\* limit = 2 give the tokens 5 and 7.
C10_FirstLimitTokens ==
    /\ \A issuer \in Issuers, from_token \in FromArgs, limit \in LimitArgs,
          with_expired \in OptFlags :
           LET id == sbt_issuers[issuer]
               from == unwrap_or(from_token, 1)
               visible == {t \in from..unwrap_or(get(next_token_ids, id), 0) :
                              Visible(id, t, with_expired)}
           IN  Returns(issuer, from_token, limit, with_expired,
                       {t \in visible : Cardinality({u \in visible : u < t})
                                           < unwrap_or(limit, MAX_LIMIT)})
    /\ Hole6 => Returns("issuer1", Some(5), Some(2), Some(TRUE), {5, 7})

\* C10 amended: sbt_tokens returns, in ascending order, the stored (and, unless
\* with_expired, non-expired) tokens among the ids from_token .. from_token +
\* limit - 1 that the issuer has assigned: limit counts scanned ids; with ids 5
\* and 7 stored and 6 burned, from_token = 5 and limit = 2 give token 5 only.
C10_ScanWindow ==
    /\ \A issuer \in Issuers, from_token \in FromArgs, limit \in LimitArgs,
          with_expired \in OptFlags :
           LET id == sbt_issuers[issuer]
               from == unwrap_or(from_token, 1)
               to == Min(unwrap_or(get(next_token_ids, id), 0),
                         from + unwrap_or(limit, MAX_LIMIT) - 1)
           IN  Returns(issuer, from_token, limit, with_expired,
                       {t \in from..to : Visible(id, t, with_expired)})
    /\ Hole6 => Returns("issuer1", Some(5), Some(2), Some(TRUE), {5})

\* seven or more tokens minted, token 6 burned, tokens 5 and 7 stored
C10_Witness ==
    /\ Hole6
    /\ sbt_tokens("issuer1", Some(5), Some(2), None).ok

(***************************************************************************)
(* Properties of failing calls.                                            *)
(***************************************************************************)
\* the call failed: it returns and emits nothing and leaves every collection of
\* the contract as it was
NoEffect(r) == ~r.ok /\ r.ret = <<>> /\ r.events = <<>> /\ r.st = self

\* token specs of two pairs of one token and of one pair of two tokens
PairSpecs ==
    {<<<<o1, <<TokenMetadata(c1, None)>>>>, <<o2, <<TokenMetadata(c2, None)>>>>>> :
         o1 \in Accounts, o2 \in Accounts, c1 \in ClassArgs, c2 \in ClassArgs}
    \cup {<<<<o, <<TokenMetadata(c1, None), TokenMetadata(c2, None)>>>>>> :
             o \in Accounts, c1 \in ClassArgs, c2 \in ClassArgs}

has_zero_class(token_spec) ==
    \E k \in 1..Len(flatten(token_spec)) : flatten(token_spec)[k][2].class = 0

\* C11: an sbt_mint call with a metadata entry of class 0 fails and has no
\* effect: no token of the call is stored, pairs before the offending one
\* included, no BalanceKey is added, and the issuer's next token id and the
\* three supply counters are unchanged.
C11_ZeroClassMintFails ==
    \A issuer \in Issuers, token_spec \in TokenSpecs \cup PairSpecs :
        has_zero_class(token_spec) => NoEffect(sbt_mint(issuer, token_spec, TRUE))

\* a mint has failed in a state in which a call of a valid pair followed by a
\* pair of class 0 fails although the valid pair alone would be minted
C11_Witness ==
    /\ last.op = "sbt_mint" /\ ~last.ok
    /\ issuer_tokens # EmptyMap
    /\ \E issuer \in Issuers, token_spec \in PairSpecs :
           /\ Len(token_spec) = 2
           /\ token_spec[2][2][1].class = 0
           /\ sbt_mint(issuer, <<token_spec[1]>>, TRUE).ok
           /\ ~sbt_mint(issuer, token_spec, TRUE).ok

\* every mutation called by `caller` with arguments of the model fails without effect
EveryMutationFails(caller) ==
    /\ \A token_spec \in TokenSpecs, d \in BOOLEAN :
           NoEffect(sbt_mint(caller, token_spec, d))
    /\ \A tokens \in TokenLists, burn \in BOOLEAN :
           NoEffect(sbt_revoke(caller, tokens, burn))
    /\ \A owner \in Owners, burn \in BOOLEAN :
           NoEffect(sbt_revoke_by_owner(caller, owner, burn))
    /\ \A from \in Owners, to \in Owners :
           NoEffect(sbt_recover(caller, from, to))
    /\ \A t \in TokenArgs, expires_at \in 0..MaxTime :
           NoEffect(sbt_renew(caller, <<t>>, expires_at))

\* C12: every mutation invoked by a caller that is no registered issuer aborts,
\* and a call that aborts leaves the Issuer Directory, the Token Store, the
\* Balance Index, the supply counters and the Continuation Guard unchanged.
C12_NonIssuerAborts ==
    /\ [](\A caller \in Callers \ DOMAIN sbt_issuers : EveryMutationFails(caller))
    /\ [][(now' = now /\ ~last'.ok) => UNCHANGED ledger]_vars

\* a revoke has failed in a state where the issuer's own call of it would burn
\* a stored token and the same call by an account that is no issuer fails
C12_Witness ==
    /\ last.op = "sbt_revoke" /\ ~last.ok
    /\ \E caller \in Callers \ DOMAIN sbt_issuers, t \in TokenArgs :
           /\ sbt_revoke("issuer1", <<t>>, TRUE).ok
           /\ ~sbt_revoke(caller, <<t>>, TRUE).ok

\* the list names an id under which the issuer has no stored token
Missing(issuer_id, tokens) ==
    \E n \in 1..Len(tokens) : ~contains_key(issuer_tokens, IssuerTokenId(issuer_id, tokens[n]))

Repeated(tokens) ==
    \E m \in 1..Len(tokens), n \in 1..Len(tokens) : m # n /\ tokens[m] = tokens[n]

\* burning the listed tokens, all stored, would take a counter below zero
Underflow(issuer_id, tokens) ==
    LET listed == {IssuerTokenId(issuer_id, t) : t \in Range(tokens)}
    IN  \/ Cardinality(listed) > supply_of(supply_by_issuer, issuer_id)
        \/ \E o \in Owners :
               Cardinality({tid \in listed : issuer_tokens[tid].owner = o})
                   > supply_of(supply_by_owner, <<o, issuer_id>>)
        \/ \E c \in Classes :
               Cardinality({tid \in listed : issuer_tokens[tid].metadata.class = c})
                   > supply_of(supply_by_class, <<issuer_id, c>>)

\* no supply counter of the collections is negative
CountersInRange(st) ==
    /\ \A k \in DOMAIN st.supply_by_owner : st.supply_by_owner[k] \in Nat
    /\ \A k \in DOMAIN st.supply_by_class : st.supply_by_class[k] \in Nat
    /\ \A k \in DOMAIN st.supply_by_issuer : st.supply_by_issuer[k] \in Nat

\* C13: an sbt_revoke call that names an id with no stored token of the issuer
\* (never minted, burned, or repeated in a burn list), or whose decrement would
\* take a counter below zero, aborts; an aborted call leaves the whole ledger
\* as it was, tokens listed earlier included, and no counter is changed,
\* wrapped or clamped.
C13_RevokeAbortsWhole ==
    \A issuer \in Issuers, tokens \in TokenLists, burn \in BOOLEAN :
        LET id == sbt_issuers[issuer]
            r == sbt_revoke(issuer, tokens, burn)
        IN  /\ Missing(id, tokens) => NoEffect(r)
            /\ (burn /\ Repeated(tokens)) => NoEffect(r)
            /\ (burn /\ ~Missing(id, tokens) /\ Underflow(id, tokens)) => NoEffect(r)
            /\ ~r.ok => NoEffect(r)
            /\ CountersInRange(r.st)

\* a revoke has failed; a burn of a stored token would take a counter below
\* zero, and a list of a stored token followed by a missing one fails as a whole
C13_Witness ==
    /\ last.op = "sbt_revoke" /\ ~last.ok
    /\ \E issuer \in Issuers, t \in TokenArgs, u \in TokenArgs :
           /\ ~Missing(sbt_issuers[issuer], <<t>>)
           /\ Underflow(sbt_issuers[issuer], <<t>>)
           /\ Missing(sbt_issuers[issuer], <<u>>)
           /\ ~sbt_revoke(issuer, <<t, u>>, FALSE).ok

(***************************************************************************)
(* Properties of the token ids.                                            *)
(***************************************************************************)
\* the highest token id the issuer has assigned
Highest(issuer_id) == unwrap_or(get(next_token_ids, issuer_id), 0)

\* a successful mint assigns the ids Highest + 1, Highest + 2, ... to the pairs
\* of its input in their order, none of which carries a token yet
MintAssignsNextIds(issuer, token_spec) ==
    LET id == sbt_issuers[issuer]
        pairs == flatten(token_spec)
        r == sbt_mint(issuer, token_spec, TRUE)
    IN  r.ok =>
            /\ r.ret = [k \in 1..Len(pairs) |-> Highest(id) + k]
            /\ get(r.st.next_token_ids, id) = Some(Highest(id) + Len(pairs))
            /\ \A k \in 1..Len(pairs) :
                   /\ ~contains_key(issuer_tokens, IssuerTokenId(id, Highest(id) + k))
                   /\ get(r.st.issuer_tokens, IssuerTokenId(id, Highest(id) + k))
                          = Some(TokenData(pairs[k][1], pairs[k][2]))

\* C14: per issuer, token ids are assigned sequentially from 1: a minted token
\* gets an id above every id assigned before, sbt_mint returns the ids in the
\* order of its input, no id is assigned twice, burned or not, and the highest
\* assigned id never decreases.
C14_SequentialIds ==
    /\ [](/\ \A tid \in DOMAIN issuer_tokens : tid[2] \in 1..Highest(tid[1])
          /\ \A issuer \in Issuers, token_spec \in TokenSpecs \cup PairSpecs :
                 MintAssignsNextIds(issuer, token_spec))
    /\ [][/\ \A i \in IssuerIds : Highest(i)' >= Highest(i)
          /\ (now' = now /\ last'.op = "sbt_mint" /\ last'.ok) =>
                 \E i \in IssuerIds :
                     /\ last'.ret = [k \in 1..Len(last'.ret) |-> Highest(i) + k]
                     /\ Highest(i)' = Highest(i) + Len(last'.ret)]_vars

\* a mint after a burn: id 1 carries no token any more and the mint assigned id 2
C14_Witness ==
    /\ last.op = "sbt_mint" /\ last.ok /\ last.ret = <<2>>
    /\ \E i \in IssuerIds :
           /\ ~contains_key(issuer_tokens, IssuerTokenId(i, 1))
           /\ contains_key(issuer_tokens, IssuerTokenId(i, 2))

(***************************************************************************)
(* Properties of sbt_revoke_by_owner.                                      *)
(***************************************************************************)
\* the stored tokens of the issuer that the owner holds
Held(issuer_id, owner) ==
    {tid \in StoredTokens(issuer_id) : issuer_tokens[tid].owner = owner}

\* the token ids named by the events of a call
EventTokens(r) == UNION {Range(e.tokens) : e \in Range(r.events)}

\* C15: a successful sbt_revoke_by_owner(owner, burn) by an issuer acts on all
\* tokens of the issuer that the owner holds: after burn = true none of them is
\* left in the Token Store or the Balance Index, after burn = false each has
\* expires_at = now; the call does nothing only if the owner holds no token of
\* the issuer, and it never processes a part of them.
C15_RevokeByOwnerAll ==
    \A issuer \in Issuers, owner \in Owners, burn \in BOOLEAN :
        LET id == sbt_issuers[issuer]
            r == sbt_revoke_by_owner(issuer, owner, burn)
        IN  r.ok =>
                /\ burn =>
                       /\ \A tid \in DOMAIN r.st.issuer_tokens :
                              ~(tid[1] = id /\ r.st.issuer_tokens[tid].owner = owner)
                       /\ \A k \in DOMAIN r.st.balances :
                              ~(k.issuer_id = id /\ k.owner = owner)
                /\ ~burn =>
                       \A tid \in Held(id, owner) :
                           r.st.issuer_tokens[tid].metadata.expires_at = Some(now)
                /\ r.events = <<>> => Held(id, owner) = {}
                /\ r.events # <<>> =>
                       EventTokens(r) = {tid[2] : tid \in Held(id, owner)}

(***************************************************************************)
(* Properties of the expiry filter.                                        *)
(***************************************************************************)
\* expires_at is set and is less than or equal to the current time
ExpiredByNow(metadata) ==
    metadata.expires_at # None /\ metadata.expires_at[1] <= now

\* the ids sbt_tokens returns for the issuer
TokensOf(issuer, with_expired) ==
    {t.token : t \in Range(sbt_tokens(issuer, None, None, with_expired).val)}

\* the ids sbt_tokens_by_owner returns for the account under the issuer
OwnedOf(account, issuer, with_expired) ==
    LET r == sbt_tokens_by_owner(account, Some(issuer), None, None, with_expired)
    IN  UNION {{t.token : t \in Range(r.val[g][2])} : g \in 1..Len(r.val)}

\* the stored tokens of the issuer that the Balance Index holds for the account
Indexed(issuer_id, account) ==
    {tid \in Held(issuer_id, account) :
        get(balances, balance_key(account, issuer_id, issuer_tokens[tid].metadata.class))
            = Some(tid[2])}

\* C16: without with_expired = true, sbt_tokens and sbt_tokens_by_owner omit a
\* token exactly when its expires_at is set and is less than or equal to the
\* current time, so a token soft-revoked at this timestamp is omitted; with
\* with_expired = true it is returned, as expiration does not delete it.
C16_ExpiryFilter ==
    \A issuer \in Issuers :
        LET id == sbt_issuers[issuer]
        IN  /\ \A with_expired \in {None, Some(FALSE)} :
                   /\ TokensOf(issuer, with_expired)
                          = {tid[2] : tid \in {x \in StoredTokens(id) :
                                                  ~ExpiredByNow(issuer_tokens[x].metadata)}}
                   /\ \A account \in {a \in Owners : ~contains_key(ongoing_soul_tx, a)} :
                          OwnedOf(account, issuer, with_expired)
                              = {tid[2] : tid \in {x \in Indexed(id, account) :
                                                      ~ExpiredByNow(issuer_tokens[x].metadata)}}
            /\ TokensOf(issuer, Some(TRUE)) = {tid[2] : tid \in StoredTokens(id)}
            /\ \A account \in {a \in Owners : ~contains_key(ongoing_soul_tx, a)} :
                   OwnedOf(account, issuer, Some(TRUE))
                       = {tid[2] : tid \in Indexed(id, account)}

(***************************************************************************)
(* Properties of the is-human handshake.                                   *)
(***************************************************************************)
\* the non-expired tokens of the class that the account holds from the IAH issuer
ValidIah(account, cls) ==
    {tid \in Held(sbt_issuers[iah_sbts[1]], account) :
        /\ issuer_tokens[tid].metadata.class = cls
        /\ ~ExpiredByNow(issuer_tokens[tid].metadata)}

\* the account holds a non-expired token of every required IAH class
HoldsEveryIahClass(account) == \A cls \in Range(iah_sbts[2]) : ValidIah(account, cls) # {}

\* the account holds no token of a required IAH class, expired or not
HoldsNoIahClass(account) ==
    \A tid \in Held(sbt_issuers[iah_sbts[1]], account) :
        issuer_tokens[tid].metadata.class \notin Range(iah_sbts[2])

\* the proof is (IAH issuer, ids) with exactly the account's non-expired IAH tokens
ExactProof(proof, account) ==
    /\ Len(proof) = 1
    /\ proof[1][1] = iah_sbts[1]
    /\ Len(proof[1][2]) = Len(iah_sbts[2])
    /\ {<<sbt_issuers[iah_sbts[1]], t>> : t \in Range(proof[1][2])}
           = UNION {ValidIah(account, cls) : cls \in Range(iah_sbts[2])}

\* a step records a proof for the account only when the account holds every class,
\* and the proof is exactly its tokens
RecordsOnlyHumans ==
    \A account \in Owners :
        recorded_sbts(account)' # recorded_sbts(account)
            => /\ HoldsEveryIahClass(account)
               /\ ExactProof(used_tokens'[account], account)

C18_FailedCallRefunds ==
    /\ [](\A caller \in Owners, payload \in Payloads, deposit \in Deposits :
              LET r == is_human_call(caller, payload, deposit)
              IN  ~r.ok => r.refund = deposit /\ r.st = self)
    /\ [][(last'.op = "is_human_call" /\ ~last'.ok)
              => UNCHANGED <<ledger, near_balance>>]_vars

\* the call of a human with too small a deposit has failed in the target
C18_Witness ==
    /\ last.op = "is_human_call" /\ ~last.ok /\ last.ret = <<"human_checker">>
    /\ \E caller \in Owners : _is_human(caller) # <<>>

(***************************************************************************)
(* Properties of the pages of sbt_tokens_by_owner.                         *)
(***************************************************************************)
\* the limits of the pages
PageLimits == {1, 3, 7}

\* the tokens of the only group of a result restricted to one issuer
GroupTokens(r) == IF r.val = <<>> THEN <<>> ELSE r.val[1][2]

\* the tokens of the pages of limit `limit`: the page from from_class, then the
\* page from one past the last class id returned, until a page is empty
RECURSIVE Pages(_, _, _, _, _)
Pages(account, issuer, from_class, limit, with_expired) ==
    LET page == GroupTokens(sbt_tokens_by_owner(account, Some(issuer), from_class,
                                                Some(limit), with_expired))
    IN  IF page = <<>> THEN <<>>
        ELSE page \o Pages(account, issuer, Some(page[Len(page)].metadata.class + 1),
                           limit, with_expired)

\* the ids of the tokens of the issuer that the account owns and that pass the filter
PassingOf(account, issuer, with_expired) ==
    {tid[2] : tid \in {x \in Held(sbt_issuers[issuer], account) :
                          with_expired = Some(TRUE) \/ ~is_expired(issuer_tokens[x].metadata)}}

\* the tokens are in ascending class order, each of them once
AscendingClasses(tokens) ==
    \A m, n \in 1..Len(tokens) : m < n => tokens[m].metadata.class < tokens[n].metadata.class

\* the pages enumerate the owned tokens that pass the filter, as one call does
PagesEnumerate(account, issuer, limit, with_expired) ==
    LET pages == Pages(account, issuer, None, limit, with_expired)
    IN  /\ pages = GroupTokens(sbt_tokens_by_owner(account, Some(issuer), None, None,
                                                   with_expired))
        /\ AscendingClasses(pages)
        /\ {pages[n].token : n \in 1..Len(pages)} = PassingOf(account, issuer, with_expired)
        /\ \A n \in 1..Len(pages) :
               issuer_tokens[<<sbt_issuers[issuer], pages[n].token>>].metadata = pages[n].metadata

GroupOf(groups, account, issuer, with_expired) ==
    LET at == {g \in 1..Len(groups) : groups[g][1] = issuer}
    IN  IF PassingOf(account, issuer, with_expired) = {} THEN at = {}
        ELSE /\ Cardinality(at) = 1
             /\ \A g \in at :
                    /\ AscendingClasses(groups[g][2])
                    /\ {t.token : t \in Range(groups[g][2])}
                           = PassingOf(account, issuer, with_expired)

\* C20: with the Balance Index ordered on (issuer_id, owner, class_id),
\* sbt_tokens_by_owner(account, issuer = None) with a limit that is not reached
\* returns, for every issuer under which the account holds a token passing the
\* expiry filter, exactly one group with all such tokens in ascending class
\* order; no issuer appears twice, no group is empty, and no token of another
\* account is returned.  (Stated for accounts with no Continuation Guard whose
\* tokens are all in the Balance Index.)
C20_OneGroupPerIssuer ==
    \A account \in {a \in Owners :
                       /\ ~contains_key(ongoing_soul_tx, a)
                       /\ \A i \in IssuerIds : Held(i, a) = Indexed(i, a)},
       with_expired \in {None, Some(TRUE)} :
        LET r == sbt_tokens_by_owner(account, None, None, None, with_expired)
        IN  /\ r.ok
            /\ \A g \in 1..Len(r.val) : r.val[g][1] \in Issuers /\ r.val[g][2] # <<>>
            /\ \A issuer \in Issuers : GroupOf(r.val, account, issuer, with_expired)

(***************************************************************************)
(* Properties of the argument checks of the queries.                       *)
(***************************************************************************)
\* the arguments of sbt_tokens that its requires reject
BadTokensArgs(from_token, limit) == from_token = Some(0) \/ limit = Some(0)

\* the arguments of sbt_tokens_by_owner that its requires reject
BadOwnerArgs(issuer, from_class, limit) ==
    limit = Some(0) \/ (from_class # None /\ issuer = None)

ZeroFromArgs == {None, Some(0), Some(1)}

CapLimits == {None, Some(1), Some(3), Some(MAX_LIMIT), Some(MAX_LIMIT + 1), Some(2 * MAX_LIMIT)}

\* min(limit, 1000), with limit 1000 when absent
CappedLimit(limit) == Min(unwrap_or(limit, MAX_LIMIT), MAX_LIMIT)

\* the tokens of all the groups of a result, in the order of the result
RECURSIVE FlatTokens(_)
FlatTokens(groups) ==
    IF groups = <<>> THEN <<>> ELSE groups[1][2] \o FlatTokens(Tail(groups))

\* C22: sbt_tokens_by_owner never returns more than min(limit, 1000) tokens in
\* total across all groups, for every limit argument including values above
\* 1000 (1000 when absent): the number of tokens the scan may emit is
\* min(limit, 1000), and the scan stops as soon as that many are emitted, in
\* the middle of an issuer group if necessary, so the result is the first
\* min(limit, 1000) tokens of the result of the scan that is not cut.
C22_LimitCapsResult ==
    \A limit \in CapLimits :
        /\ scan_limit(limit) = CappedLimit(limit)
        /\ \A account \in Owners, issuer \in {None} \cup {Some(i) : i \in Issuers},
              with_expired \in {None, Some(TRUE)} :
               LET cut == FlatTokens(sbt_tokens_by_owner(account, issuer, None, limit,
                                                         with_expired).val)
                   all == FlatTokens(sbt_tokens_by_owner(account, issuer, None,
                                                         Some(MAX_LIMIT), with_expired).val)
               IN  /\ Len(cut) = Min(CappedLimit(limit), Len(all))
                   /\ cut = SubSeq(all, 1, Len(cut))

(***************************************************************************)
(* Properties of interleaved recoveries.                                   *)
(***************************************************************************)
\* C23: under any interleaving of invocations by different issuers, as long as
\* issuer1's sbt_recover from alice has returned done = false and issuer1 has
\* not yet received done = true, the Continuation Guard for alice stays set and
\* alice's owner-scoped queries stay masked: a recover from alice by issuer2
\* that finishes, or any other operation, does not clear the guard.
C23_GuardStaysSet ==
    phase = "recovering"
        => /\ contains_key(ongoing_soul_tx, "alice")
           /\ MaskedSupply("alice")
           /\ \A issuer \in OptIssuers, limit \in OptLimits, with_expired \in OptFlags :
                  Masked("alice", issuer, None, limit, with_expired)

(***************************************************************************)
(* Properties of the separation of the issuers.                            *)
(***************************************************************************)
\* the entries of the map under the keys
Restrict(m, keys) == [k \in keys |-> m[k]]

\* everything of the ledger state st that is keyed by issuer y
OfIssuer(st, y) ==
    [issuer_tokens |-> Restrict(st.issuer_tokens,
                                {tid \in DOMAIN st.issuer_tokens : tid[1] = y}),
     balances |-> Restrict(st.balances, {k \in DOMAIN st.balances : k.issuer_id = y}),
     next_token_id |-> get(st.next_token_ids, y),
     supply_by_owner |-> Restrict(st.supply_by_owner,
                                  {k \in DOMAIN st.supply_by_owner : k[2] = y}),
     supply_by_class |-> Restrict(st.supply_by_class,
                                  {k \in DOMAIN st.supply_by_class : k[1] = y}),
     supply_by_issuer |-> get(st.supply_by_issuer, y)]

\* the outcomes of the mutations issuer x can invoke in this state
MutationsBy(x) ==
    {sbt_mint(x, token_spec, d) : token_spec \in TokenSpecs \cup PairSpecs, d \in BOOLEAN}
        \cup {sbt_revoke(x, tokens, burn) : tokens \in TokenLists, burn \in BOOLEAN}
        \cup {sbt_revoke_by_owner(x, owner, burn) : owner \in Owners, burn \in BOOLEAN}
        \cup {sbt_recover(x, from, to) : from \in Accounts, to \in Owners}
        \cup {sbt_renew(x, tokens, expires_at) : tokens \in TokenLists,
                                                 expires_at \in 0..MaxTime}

\* C24: every mutation invoked by issuer X (sbt_mint, sbt_revoke,
\* sbt_revoke_by_owner, sbt_recover, sbt_renew) leaves unchanged every Token
\* Store entry, Balance Index entry, next token id and supply counter keyed by
\* another issuer Y, even when the token ids or the owner named in the call
\* also exist under Y.
C24_OtherIssuerUntouched ==
    \A x \in Issuers, y \in IssuerIds :
        y # sbt_issuers[x]
            => \A r \in MutationsBy(x) : OfIssuer(r.st, y) = OfIssuer(self, y)

\* both issuers hold token 1 for alice, and a revoke of token 1 has just succeeded
C24_Witness ==
    /\ last.ok /\ last.op \in {"sbt_revoke", "sbt_revoke_by_owner"}
    /\ \E x \in Issuers, y \in IssuerIds :
           /\ y # sbt_issuers[x]
           /\ contains_key(issuer_tokens, <<y, 1>>)
           /\ issuer_tokens[<<y, 1>>].owner = "alice"
           /\ \E e \in Range(last.events) : e.issuer = x /\ 1 \in Range(e.tokens)
           /\ \/ ~contains_key(issuer_tokens, <<sbt_issuers[x], 1>>)
              \/ issuer_tokens[<<sbt_issuers[x], 1>>].owner = "alice"

=============================================================================
